---- MODULE Spec2Model ----
(***************************************************************************)
(* A model of the "who tests what" pytest plugin of src/src/run_wtw.py:    *)
(* the WTWPlugin object, its three hooks, the memoized who_tested_what()   *)
(* resolution against the sqlite baseline, and the two bitmask helpers.    *)
(*                                                                         *)
(* Text (paths, contexts, node ids) is a sequence of one-character        *)
(* strings; a bytes object is a sequence of integers in 0..255; a sqlite   *)
(* table is a set of rows, except diff_lines, which the plugin inserts     *)
(* into and which is therefore a bag of rows (or NoTable before CREATE).   *)
(***************************************************************************)
EXTENDS Integers, Sequences, FiniteSets, Bags, TLC

VARIABLES
    config,          \* the options of this run: [wtw, wtwdb, verbose, rootdir, cwd]
    patch,           \* the unified diff in the file that --wtw names
    collection,      \* the items the host collected for this session
    store,           \* the sqlite baseline: [file, context, line_map, diff_lines]
    active,          \* WTWPlugin.active
    diff,            \* WTWPlugin.diff: [has, files], has = FALSE when never assigned
    connected,       \* WTWPlugin.baseline is an open connection
    memo,            \* WTWPlugin._who_tested_what: [has, ...], has = FALSE until assigned
    skipped_files,   \* WTWPlugin._skipped_files
    report_status,   \* WTWPlugin._report_status
    items,           \* the session's item list, modified in place
    deselected,      \* the pytest_deselected notifications sent in this run
    ret,             \* the last hook call of this run and what it returned
    wtw_returns,     \* what each who_tested_what() call of this run returned
    stagings,        \* staging transactions (DROP/CREATE/INSERT) run in this run
    skip_decisions,  \* pytest_ignore_collect calls of this run that returned True
    ncalls,          \* hook calls made in this run
    runs,            \* plugin instances constructed so far
    mask,            \* arguments and results of the bitmask helpers
    hunk,            \* one file's hunks, their padded lines and their linemask
    prefix           \* a baseline's file paths and their common prefix

pluginVars == <<config, patch, collection, store, active, diff, connected, memo,
                skipped_files, report_status, items, deselected, ret,
                wtw_returns, stagings, skip_decisions, ncalls, runs>>
helperVars == <<mask, hunk, prefix>>
vars == <<pluginVars, helperVars>>

\* Bounds of the model.
MaxLine == 16
MaxStart == 9
MaxLength == 3
MaxCalls == 3
MaxRuns == 2

\* Python values: None is the empty tuple (no text of the model is empty where
\* None may stand), True and False are one-word texts.
None == <<>>
PyTrue == <<"True">>
PyFalse == <<"False">>

(***************************************************************************)
(* Integers and bytes.                                                     *)
(***************************************************************************)
Max(S) == CHOOSE m \in S : \A n \in S : n <= m

RECURSIVE Pow2(_)
Pow2(n) == IF n = 0 THEN 1 ELSE 2 * Pow2(n - 1)

\* range(lo, hi)
range(lo, hi) == lo..(hi - 1)

\* Whether bit b (0..7) of a byte is set.
TestBit(byte, b) == (byte \div Pow2(b)) % 2 = 1

\* The byte whose set bits are the members of bits.
RECURSIVE ByteOfBits(_, _)
ByteOfBits(bits, b) ==
    IF b > 7 THEN 0
    ELSE (IF b \in bits THEN Pow2(b) ELSE 0) + ByteOfBits(bits, b + 1)

\* x & y on bytes.
BitAnd(x, y) == ByteOfBits({ b \in 0..7 : TestBit(x, b) /\ TestBit(y, b) }, 0)

\* Python's sequence indexing: a negative index counts from the end.
PyIndex(i, n) == IF i < 0 THEN i + n ELSE i

\* set_to_bitmask: one byte per 8 numbers up to max(nums); b[num//8] |= 1 << num%8,
\* where b[...] is Python indexing into the bytearray.
set_to_bitmask(nums) ==
    LET nbytes == Max(nums) \div 8 + 1
    IN [k \in 1..nbytes |->
           ByteOfBits({ num % 8 : num \in { n \in nums : PyIndex(n \div 8, nbytes) = k - 1 } }, 0)]

\* any_intersection with | in place of &.
any_intersection_or(bits1, bits2) ==
    LET n == Max({Len(bits1), Len(bits2)})
        at(s, k) == IF k <= Len(s) THEN s[k] ELSE 0
        or(x, y) == ByteOfBits({ b \in 0..7 : TestBit(x, b) \/ TestBit(y, b) }, 0)
    IN IF \E k \in 1..n : or(at(bits1, k), at(bits2, k)) # 0 THEN 1 ELSE 0

\* any_intersection: izip_longest pads the shorter mask with '\x00'; the result is
\* int(any(b1 & b2)).
any_intersection(bits1, bits2) ==
    LET n == Max({Len(bits1), Len(bits2)})
        at(s, k) == IF k <= Len(s) THEN s[k] ELSE 0
    IN IF \E k \in 1..n : BitAnd(at(bits1, k), at(bits2, k)) # 0 THEN 1 ELSE 0

(***************************************************************************)
(* Text.                                                                   *)
(***************************************************************************)
\* s[i:j] for 0 <= i <= j <= len(s)
Slice(s, i, j) == [k \in 1..(j - i) |-> s[i + k]]

\* Whether sep occurs in s at 0-based offset i.
OccursAt(s, sep, i) ==
    /\ i >= 0
    /\ i + Len(sep) <= Len(s)
    /\ \A k \in 1..Len(sep) : s[i + k] = sep[k]

Offsets(s, sep) == { i \in 0..Len(s) : OccursAt(s, sep, i) }

\* str.partition(sep)[0]: the text before the first sep, all of s when there is none.
partition_head(s, sep) ==
    IF Offsets(s, sep) = {} THEN s
    ELSE Slice(s, 0, CHOOSE i \in Offsets(s, sep) : \A j \in Offsets(s, sep) : i <= j)

\* str.rpartition(sep)[0]: the text before the last sep, '' when there is none.
rpartition_head(s, sep) ==
    IF Offsets(s, sep) = {} THEN <<>>
    ELSE Slice(s, 0, Max(Offsets(s, sep)))

endswith(s, sep) == OccursAt(s, sep, Len(s) - Len(sep))
startswith(s, sep) == OccursAt(s, sep, 0)

SLASH == <<"/">>
PIPE == <<"|">>
COLONS == <<":", ":">>

(***************************************************************************)
(* Paths.                                                                  *)
(***************************************************************************)
\* The components of a path text, empty ones dropped.
RECURSIVE Components(_)
Components(s) ==
    IF s = <<>> THEN <<>>
    ELSE LET head == partition_head(s, SLASH)
             rest == IF Len(head) = Len(s) THEN <<>> ELSE Slice(s, Len(head) + 1, Len(s))
         IN IF head = <<>> THEN Components(rest) ELSE <<head>> \o Components(rest)

\* pathlib.Path(text): an anchor and the components.
Path(s) == [anchor |-> IF startswith(s, SLASH) THEN "/" ELSE "", parts |-> Components(s)]

\* Path / text: an absolute right operand replaces the left one.
PathJoin(p, s) ==
    IF startswith(s, SLASH) THEN Path(s)
    ELSE [anchor |-> p.anchor, parts |-> p.parts \o Components(s)]

\* os.path.abspath(text) under the working directory cwd.
abspath(cwd, s) == IF startswith(s, SLASH) THEN s ELSE cwd \o SLASH \o s

\* os.path.commonprefix: the longest character-wise prefix shared by all texts.
commonprefix(m) ==
    IF m = {} THEN <<>>
    ELSE LET s1 == CHOOSE s \in m : TRUE
             common(n) == \A s \in m : Len(s) >= n /\ Slice(s, 0, n) = Slice(s1, 0, n)
         IN Slice(s1, 0, Max({ n \in 0..Len(s1) : common(n) }))

\* str.rstrip('/')
RECURSIVE rstrip_slash(_)
rstrip_slash(s) ==
    IF s # <<>> /\ s[Len(s)] = "/" THEN rstrip_slash(Slice(s, 0, Len(s) - 1)) ELSE s

\* os.path.dirname: the text up to the last '/', its trailing slashes stripped
\* unless it is slashes only.
dirname(p) ==
    LET i == IF Offsets(p, SLASH) = {} THEN 0 ELSE Max(Offsets(p, SLASH)) + 1
        head == Slice(p, 0, i)
    IN IF head # <<>> /\ (\E k \in 1..Len(head) : head[k] # "/") THEN rstrip_slash(head)
       ELSE head

\* The prefix the resolution computes from the baseline's file paths.
common_prefix_of(all_files) ==
    LET cp == commonprefix(all_files)
    IN IF ~endswith(cp, SLASH) THEN dirname(cp) ELSE cp

(***************************************************************************)
(* The inputs: option values, diffs, baselines, collected items.           *)
(***************************************************************************)
RootDir == <<"/", "r">>
DiffFile == <<"d">>
DbFile == <<"b">>

File(path, hunks) == [path |-> path, hunks |-> hunks]
Hunk(start, length) == [source_start |-> start, source_length |-> length]

\* a.py changed at lines 10..12; a new file n.py together with a change of a.py;
\* a rename (no hunk) together with a change of the test file; two hunks of a.py.
Patches ==
    { << File(<<"a">>, << Hunk(10, 3) >>) >>,
      << File(<<"n">>, << Hunk(0, 0) >>), File(<<"a">>, << Hunk(30, 1) >>) >>,
      << File(<<"q">>, << >>), File(<<"t", "a">>, << Hunk(1, 2) >>) >>,
      << File(<<"a">>, << Hunk(2, 1), Hunk(20, 2) >>) >> }

Ctx(id, text) == [id |-> id, context |-> text]
Fil(id, path) == [id |-> id, path |-> path]
Lm(file_id, bitmap, context_id) ==
    [file_id |-> file_id, bitmap |-> bitmap, context_id |-> context_id]

Contexts ==
    { Ctx(1, <<>>),
      Ctx(2, <<"t", "a", ":", ":", "x", "|", "c">>),
      Ctx(3, <<"t", "b", ":", ":", "y", "|", "s">>),
      Ctx(4, <<"t", "b", ":", ":", "z">>) }

\* Bitmaps: lines 9..13, lines 10..11, line 30, lines 1..2, line 2, line 7.
LineMaps ==
    { Lm(1, <<0, 62>>, 2), Lm(1, <<0, 12>>, 1), Lm(1, <<0, 0, 0, 64>>, 3),
      Lm(2, <<6>>, 2), Lm(1, <<4>>, 4), Lm(3, <<128>>, 3), Lm(3, <<1>>, 1) }

\* A baseline recorded under the root directory and one recorded on another machine.
Baselines ==
    { [file |-> { Fil(1, <<"/", "r", "/", "a">>), Fil(2, <<"/", "r", "/", "t", "a">>),
                  Fil(3, <<"/", "r", "/", "n">>) },
       context |-> Contexts, line_map |-> LineMaps],
      [file |-> { Fil(1, <<"/", "o", "/", "a">>), Fil(2, <<"/", "o", "/", "t", "a">>) },
       context |-> Contexts, line_map |-> LineMaps] }

Row(path, linemask) == [path |-> path, linemask |-> linemask]
Table(rows) == [exists |-> TRUE, rows |-> rows]
NoTable == [exists |-> FALSE, rows |-> EmptyBag]

\* What diff_lines may hold before a run: absent, or rows of earlier runs (here one
\* stale row twice and another once); a later run of the model finds the rows the
\* run before it staged, which may be none.
StaleRows == (Row(<<"/", "r", "/", "a">>, <<0, 62>>) :> 2) @@ (Row(<<"/", "x">>, <<255>>) :> 1)
DiffLinesBefore == { NoTable, Table(StaleRows) }

Item(oid, nodeid) == [oid |-> oid, nodeid |-> nodeid]

\* Collected item lists; the second repeats an item and has two items of one node id.
Collections ==
    { << Item(1, <<"t", "a", ":", ":", "x">>), Item(2, <<"t", "a", ":", ":", "w">>),
         Item(3, <<"t", "b", ":", ":", "y">>), Item(4, <<"n", ":", ":", "t">>) >>,
      << Item(1, <<"t", "a", ":", ":", "x">>), Item(1, <<"t", "a", ":", ":", "x">>),
         Item(2, <<"t", "a", ":", ":", "x">>), Item(3, <<"a", ":", ":", "t">>) >>,
      << >> }

\* The paths the host asks pytest_ignore_collect about.
CollectPaths ==
    { <<"/", "r", "/", "t", "a">>, <<"/", "r", "/", "t", "b">>, <<"/", "r", "/", "n">>,
      <<"/", "r">> }

Configs ==
    [wtw : {None, DiffFile}, wtwdb : {None, DbFile}, verbose : {-1, 0},
     rootdir : {RootDir}, cwd : {RootDir}]

(***************************************************************************)
(* WTWPlugin.                                                              *)
(***************************************************************************)
NoDiff == [has |-> FALSE, files |-> <<>>]
NoMemo == [has |-> FALSE, files_changed |-> {}, context_files |-> {}, contexts |-> {}]
NoCall == [hook |-> "none", path |-> <<>>, isfile |-> FALSE, before |-> <<>>, value |-> None]

\* all(config.getoption(opt) for opt in ("wtw", "wtwdb")): None and '' are falsy.
is_active(cfg) == cfg.wtw # None /\ cfg.wtwdb # None

\* try: return self._who_tested_what / except AttributeError, never finding it.
has_memo_never(m) == FALSE

\* try: return self._who_tested_what / except AttributeError
has_memo(m) == m.has

\* files_changed: rootpath / file.path for every file of the diff.
files_changed_of(d, rootpath) == { PathJoin(rootpath, d[i].path) : i \in DOMAIN d }

\* range(hunk.source_start - 1, hunk.source_start + hunk.source_length + 1)
hunk_lines(h) == range(h.source_start - 1, h.source_start + h.source_length + 1)

\* source_lines_changed: a key for every file.path that has a hunk, mapped to the
\* union of its hunks' padded spans.
source_lines_changed(d) ==
    [p \in { d[i].path : i \in { j \in DOMAIN d : d[j].hunks # <<>> } } |->
        UNION { UNION { hunk_lines(d[i].hunks[k]) : k \in DOMAIN d[i].hunks }
                : i \in { j \in DOMAIN d : d[j].path = p } }]

\* source_line_masks: one (abspath, linemask) row per key of source_lines_changed.
source_line_masks(d, cwd) ==
    LET slc == source_lines_changed(d)
        row(p) == Row(abspath(cwd, p), set_to_bitmask(slc[p]))
        rows == { row(p) : p \in DOMAIN slc }
    IN [r \in rows |-> Cardinality({ p \in DOMAIN slc : row(p) = r })]

\* Staging that inserts into whatever diff_lines already holds.
stage_diff_lines_keep(st, rows) ==
    [st EXCEPT !.diff_lines = Table(IF st.diff_lines.exists
                                    THEN st.diff_lines.rows (+) rows ELSE rows)]

\* DROP TABLE IF EXISTS diff_lines; CREATE TABLE diff_lines; INSERT the rows.
stage_diff_lines(st, rows) == [st EXCEPT !.diff_lines = Table(rows)]

\* A WHERE clause that lets every context through.
context_wanted_any(c) == TRUE

\* WHERE c.context <> ''
context_wanted(c) == c.context # <<>>

\* SELECT DISTINCT c.context FROM diff_lines dl JOIN file f ON dl.path = f.path
\* JOIN line_map l ON any_intersection(dl.linemask, l.bitmap) AND l.file_id = f.id
\* JOIN context c ON l.context_id = c.id WHERE c.context <> ''
select_contexts(st) ==
    { c.context : c \in
        { c \in st.context :
            /\ context_wanted(c)
            /\ \E dl \in BagToSet(st.diff_lines.rows), f \in st.file, l \in st.line_map :
                  /\ dl.path = f.path
                  /\ l.file_id = f.id
                  /\ l.context_id = c.id
                  /\ any_intersection(dl.linemask, l.bitmap) # 0 } }

\* The body of who_tested_what() after the AttributeError: the store as staged and
\* the triple assigned to self._who_tested_what.  (The common prefix of the file
\* paths, common_prefix_of, is computed in between and not used.)
resolve(d, st, cfg) ==
    LET rootpath == Path(cfg.rootdir)
        staged == stage_diff_lines(st, source_line_masks(d, cfg.cwd))
        found == select_contexts(staged)
    IN [store |-> staged,
        memo |-> [has |-> TRUE,
                  files_changed |-> files_changed_of(d, rootpath),
                  context_files |->
                      { PathJoin(rootpath, partition_head(rpartition_head(c, PIPE), COLONS))
                        : c \in found },
                  contexts |-> { rpartition_head(c, PIPE) : c \in found }]]

\* One call of who_tested_what(): memo' is what it returns.
who_tested_what ==
    /\ IF has_memo(memo)
       THEN UNCHANGED <<memo, store, stagings>>
       ELSE LET r == resolve(diff.files, store, config)
            IN /\ memo' = r.memo
               /\ store' = r.store
               /\ stagings' = stagings + 1
    /\ wtw_returns' = Append(wtw_returns, memo')

\* Path(path) not in files_changed alone.
not_to_test_changed_only(p, files_changed, context_files) == p \notin files_changed

\* Path(path) not in (files_changed | context_files)
not_to_test(p, files_changed, context_files) == p \notin (files_changed \cup context_files)

\* item.nodeid in contexts or any(Path(item.nodeid.partition("::")[0]) == changed_file
\* for changed_file in files_changed)
keep_item(item, contexts, files_changed) ==
    \/ item.nodeid \in contexts
    \/ \E changed_file \in files_changed :
          Path(partition_head(item.nodeid, COLONS)) = changed_file

selected_items(its, contexts, files_changed) ==
    LET keep(item) == keep_item(item, contexts, files_changed)
    IN SelectSeq(its, keep)

\* skipped_items computed from the list after items[:] = selected_items.
skipped_items_late(its, selected) ==
    LET selected_set == { selected[i] : i \in DOMAIN selected }
        out(item) == item \notin selected_set
    IN SelectSeq(selected, out)

\* selected_set = set(selected_items); [item for item in items if item not in selected_set]
skipped_items(its, selected) ==
    LET selected_set == { selected[i] : i \in DOMAIN selected }
        out(item) == item \notin selected_set
    IN SelectSeq(its, out)

\* "{}".format(n): the decimal digits of n >= 0.
RECURSIVE str(_)
str(n) ==
    LET digit == <<"0", "1", "2", "3", "4", "5", "6", "7", "8", "9">>[(n % 10) + 1]
    IN IF n < 10 THEN <<digit>> ELSE str(n \div 10) \o <<digit>>

\* The status text as its fields: "{} {} cover the changed lines ({} deselected)",
\* then " (skipped {files} {files_noun})" when files were skipped.
status_text(nselected, nskipped, nfiles) ==
    << str(nselected),
       IF nselected # 0 THEN <<"tests">> ELSE <<"test">>,
       <<"cover the changed lines (">>,
       str(nskipped),
       <<"deselected)">> >>
    \o (IF nfiles > 0
        THEN << <<"(skipped">>, str(nfiles),
                IF nfiles = 1 THEN <<"file)">> ELSE <<"files)">> >>
        ELSE << >>)

\* pytest_report_collectionfinish reporting whenever verbose >= 0.
reports_verbose_only(act, verbose) == verbose >= 0

\* self.active and self.config.getoption("verbose") >= 0
reports(act, verbose) == act /\ verbose >= 0

(***************************************************************************)
(* The hooks.                                                              *)
(***************************************************************************)
helpersParked ==
    /\ mask = [pc |-> "off"]
    /\ hunk = [pc |-> "off"]
    /\ prefix = [pc |-> "off"]

\* The state WTWPlugin.__init__ leaves, for the options cfg.
constructed(cfg, act, d, conn, m, skipped, status) ==
    /\ act = is_active(cfg)
    /\ d = IF is_active(cfg) THEN [has |-> TRUE, files |-> patch] ELSE NoDiff
    /\ conn = is_active(cfg)
    /\ m = NoMemo
    /\ skipped = 0
    /\ status = None

Init ==
    /\ config \in Configs
    /\ patch \in Patches
    /\ collection \in Collections
    /\ \E b \in Baselines, dl \in DiffLinesBefore :
          store = [file |-> b.file, context |-> b.context, line_map |-> b.line_map,
                   diff_lines |-> dl]
    /\ constructed(config, active, diff, connected, memo, skipped_files, report_status)
    /\ items = collection
    /\ deselected = <<>>
    /\ ret = NoCall
    /\ wtw_returns = <<>>
    /\ stagings = 0
    /\ skip_decisions = 0
    /\ ncalls = 0
    /\ runs = 1
    /\ helpersParked

\* pytest_configure of a later run on the same diff, baseline and collection:
\* a new WTWPlugin(config).
pytest_configure ==
    /\ runs < MaxRuns
    /\ runs' = runs + 1
    /\ config' \in { c \in Configs : c.verbose = config.verbose }
    /\ constructed(config', active', diff', connected', memo', skipped_files',
                   report_status')
    /\ items' = collection
    /\ deselected' = <<>>
    /\ ret' = NoCall
    /\ wtw_returns' = <<>>
    /\ stagings' = 0
    /\ skip_decisions' = 0
    /\ ncalls' = 0
    /\ UNCHANGED <<patch, collection, store, helperVars>>

pytest_ignore_collect(path, isfile) ==
    /\ ncalls < MaxCalls
    /\ ncalls' = ncalls + 1
    /\ IF active /\ config.wtw # None /\ isfile
       THEN /\ who_tested_what
            /\ LET skip == not_to_test(Path(path), memo'.files_changed, memo'.context_files)
               IN /\ skipped_files' = IF skip THEN skipped_files + 1 ELSE skipped_files
                  /\ ret' = [hook |-> "ignore_collect", path |-> path, isfile |-> isfile,
                             before |-> items, value |-> IF skip THEN PyTrue ELSE PyFalse]
       ELSE /\ ret' = [hook |-> "ignore_collect", path |-> path, isfile |-> isfile,
                       before |-> items, value |-> None]
            /\ UNCHANGED <<memo, store, stagings, wtw_returns, skipped_files>>
    /\ skip_decisions' = skip_decisions + (IF ret'.value = PyTrue THEN 1 ELSE 0)
    /\ UNCHANGED <<config, patch, collection, active, diff, connected, report_status,
                   items, deselected, runs, helperVars>>

pytest_report_collectionfinish ==
    /\ ncalls < MaxCalls
    /\ ncalls' = ncalls + 1
    /\ ret' = [hook |-> "report_collectionfinish", path |-> <<>>, isfile |-> FALSE,
               before |-> items,
               value |-> IF reports(active, config.verbose)
                         THEN <<"run-last-failure: ">>
                              \o (IF report_status = None THEN <<"None">> ELSE report_status)
                         ELSE None]
    /\ UNCHANGED <<config, patch, collection, store, active, diff, connected, memo,
                   skipped_files, report_status, items, deselected, wtw_returns,
                   stagings, skip_decisions, runs, helperVars>>

pytest_collection_modifyitems ==
    /\ ncalls < MaxCalls
    /\ ncalls' = ncalls + 1
    /\ ret' = [hook |-> "collection_modifyitems", path |-> <<>>, isfile |-> FALSE,
               before |-> items, value |-> None]
    /\ IF ~active
       THEN UNCHANGED <<memo, store, stagings, wtw_returns, items, deselected,
                        report_status>>
       ELSE /\ who_tested_what
            /\ LET selected == selected_items(items, memo'.contexts, memo'.files_changed)
                   skipped == skipped_items(items, selected)
               IN /\ items' = selected
                  /\ deselected' = Append(deselected, skipped)
                  /\ report_status' = status_text(Len(selected), Len(skipped), skipped_files)
    /\ UNCHANGED <<config, patch, collection, active, diff, connected, skipped_files,
                   skip_decisions, runs, helperVars>>

Next ==
    \/ \E path \in CollectPaths, isfile \in BOOLEAN : pytest_ignore_collect(path, isfile)
    \/ pytest_collection_modifyitems
    \/ pytest_report_collectionfinish
    \/ pytest_configure

Spec == Init /\ [][Next]_vars

(***************************************************************************)
(* The helpers on their own: the two bitmask functions, the linemask of    *)
(* one file's hunks, and the common prefix of a baseline's file paths.     *)
(***************************************************************************)
pluginParked ==
    /\ config = [wtw |-> None, wtwdb |-> None, verbose |-> 0, rootdir |-> RootDir,
                 cwd |-> RootDir]
    /\ patch = <<>>
    /\ collection = <<>>
    /\ store = [file |-> {}, context |-> {}, line_map |-> {}, diff_lines |-> NoTable]
    /\ constructed(config, active, diff, connected, memo, skipped_files, report_status)
    /\ items = <<>>
    /\ deselected = <<>>
    /\ ret = NoCall
    /\ wtw_returns = <<>>
    /\ stagings = 0
    /\ skip_decisions = 0
    /\ ncalls = 0
    /\ runs = 1

\* Two non-empty sets of line numbers, of one or two members each.
InitMask ==
    /\ pluginParked
    /\ hunk = [pc |-> "off"]
    /\ prefix = [pc |-> "off"]
    /\ \E a1 \in 0..MaxLine, a2 \in 0..MaxLine, b1 \in 0..MaxLine, b2 \in 0..MaxLine :
          mask = [pc |-> "sets", A |-> {a1, a2}, B |-> {b1, b2},
                  bits1 |-> <<>>, bits2 |-> <<>>, result |-> 0]

mask_encode ==
    /\ mask.pc = "sets"
    /\ mask' = [mask EXCEPT !.pc = "masks",
                            !.bits1 = set_to_bitmask(mask.A),
                            !.bits2 = set_to_bitmask(mask.B)]
    /\ UNCHANGED <<pluginVars, hunk, prefix>>

mask_intersect ==
    /\ mask.pc = "masks"
    /\ mask' = [mask EXCEPT !.pc = "done",
                            !.result = any_intersection(mask.bits1, mask.bits2)]
    /\ UNCHANGED <<pluginVars, hunk, prefix>>

NextMask == mask_encode \/ mask_intersect

SpecMask == InitMask /\ [][NextMask]_vars

\* One file of one or two hunks, each with a source start and a source length.
TheFile == <<"a">>

InitHunk ==
    /\ pluginParked
    /\ mask = [pc |-> "off"]
    /\ prefix = [pc |-> "off"]
    /\ \E s1 \in 0..MaxStart, l1 \in 0..MaxLength, s2 \in 0..MaxStart, l2 \in 0..MaxLength :
          \E hs \in { << Hunk(s1, l1) >>, << Hunk(s1, l1), Hunk(s2, l2) >> } :
             hunk = [pc |-> "hunks", hunks |-> hs, lines |-> {}, linemask |-> <<>>]

hunk_collect ==
    /\ hunk.pc = "hunks"
    /\ hunk' = [hunk EXCEPT !.pc = "lines",
                            !.lines = source_lines_changed(<< File(TheFile, hunk.hunks) >>)[TheFile]]
    /\ UNCHANGED <<pluginVars, mask, prefix>>

hunk_stage ==
    /\ hunk.pc = "lines"
    /\ LET rows == source_line_masks(<< File(TheFile, hunk.hunks) >>, RootDir)
           row == CHOOSE r \in BagToSet(rows) : TRUE
       IN hunk' = [hunk EXCEPT !.pc = "staged", !.linemask = row.linemask]
    /\ UNCHANGED <<pluginVars, mask, prefix>>

NextHunk == hunk_collect \/ hunk_stage

SpecHunk == InitHunk /\ [][NextHunk]_vars

\* /foo/bar/x, /foo/barn/y, /foo/bar/xy, /foo/bar/sub/w, /foo/q, /etc/p, /e
BaselinePaths ==
    { <<"/", "f", "o", "o", "/", "b", "a", "r", "/", "x">>,
      <<"/", "f", "o", "o", "/", "b", "a", "r", "n", "/", "y">>,
      <<"/", "f", "o", "o", "/", "b", "a", "r", "/", "x", "y">>,
      <<"/", "f", "o", "o", "/", "b", "a", "r", "/", "s", "u", "b", "/", "w">>,
      <<"/", "f", "o", "o", "/", "q">>,
      <<"/", "e", "t", "c", "/", "p">>,
      <<"/", "e">> }

InitPrefix ==
    /\ pluginParked
    /\ mask = [pc |-> "off"]
    /\ hunk = [pc |-> "off"]
    /\ \E S \in SUBSET BaselinePaths :
          /\ S # {}
          /\ prefix = [pc |-> "files", all_files |-> S, common_prefix |-> <<>>]

\* common_prefix = os.path.commonprefix(all_files)
prefix_scan ==
    /\ prefix.pc = "files"
    /\ prefix' = [prefix EXCEPT !.pc = "scanned",
                                !.common_prefix = commonprefix(prefix.all_files)]
    /\ UNCHANGED <<pluginVars, mask, hunk>>

\* if not common_prefix.endswith("/"): common_prefix = os.path.dirname(common_prefix)
prefix_normalise ==
    /\ prefix.pc = "scanned"
    /\ prefix' = [prefix EXCEPT !.pc = "done",
                                !.common_prefix = common_prefix_of(prefix.all_files)]
    /\ UNCHANGED <<pluginVars, mask, hunk>>

NextPrefix == prefix_scan \/ prefix_normalise

SpecPrefix == InitPrefix /\ [][NextPrefix]_vars

(***************************************************************************)
(* Properties.                                                             *)
(***************************************************************************)
SetOf(seq) == { seq[i] : i \in DOMAIN seq }

\* Whether line position i is marked in a bytes mask (bit i % 8 of byte i // 8).
Marked(bits, i) == i \div 8 < Len(bits) /\ TestBit(bits[i \div 8 + 1], i % 8)

\* Whether two masks have a line position marked in both.
ShareBit(m1, m2) == \E i \in 0..(8 * Len(m1)) : Marked(m1, i) /\ Marked(m2, i)

\* The text before the last '|' of a context: the s with context = s + '|' + t
\* for a t without '|'; '' when the context has no '|'.
SpecifierOf(c) ==
    IF \E k \in DOMAIN c : c[k] = "|"
    THEN SubSeq(c, 1, (CHOOSE k \in DOMAIN c : c[k] = "|" /\ \A j \in (k + 1)..Len(c) : c[j] # "|") - 1)
    ELSE <<>>

\* The text before the first '::' of a specifier (all of it when there is none).
FilePartOf(s) ==
    LET at(k) == k < Len(s) /\ s[k] = ":" /\ s[k + 1] = ":"
    IN IF \E k \in DOMAIN s : at(k)
       THEN SubSeq(s, 1, (CHOOSE k \in DOMAIN s : at(k) /\ \A j \in 1..(k - 1) : ~at(j)) - 1)
       ELSE s

\* The paths of the diff's files that have at least one hunk.
HunkedPaths == { diff.files[i].path : i \in { j \in DOMAIN diff.files : diff.files[j].hunks # <<>> } }

\* A non-empty baseline context some line_map row ties to a baseline file whose path
\* is the absolute path of a changed file with a hunk, the row's bitmap sharing a
\* set bit with that file's staged linemask.
Impacted(c) ==
    \E p \in HunkedPaths, dl \in BagToSet(store.diff_lines.rows), f \in store.file,
       l \in store.line_map :
        /\ dl.path = abspath(config.cwd, p)
        /\ f.path = dl.path
        /\ l.file_id = f.id
        /\ l.context_id = c.id
        /\ ShareBit(dl.linemask, l.bitmap)

ImpactedSpecifiers ==
    { SpecifierOf(c.context) : c \in { x \in store.context : x.context # <<>> /\ Impacted(x) } }

C2_KeptIffContextOrChangedFile ==
    (active /\ ret.hook = "collection_modifyitems") =>
        LET wanted(item) ==
                \/ item.nodeid \in memo.contexts
                \/ \E i \in DOMAIN diff.files : FilePartOf(item.nodeid) = diff.files[i].path
        IN items = SelectSeq(ret.before, wanted)

\* C3: pytest_ignore_collect returns True exactly when the plugin is active, the
\* path is a regular file and the path is in neither files_changed nor
\* context_files; the skipped-file counter equals the number of True returns.
C3_SkipDecision ==
    /\ ret.hook = "ignore_collect" =>
          ((ret.value = PyTrue) <=>
              /\ active
              /\ ret.isfile
              /\ Path(ret.path) \notin memo.files_changed
              /\ Path(ret.path) \notin memo.context_files)
    /\ skipped_files = skip_decisions

\* A second skip, of a regular file, on an active plugin.
C3_Witness ==
    /\ ret.hook = "ignore_collect"
    /\ ret.value = PyTrue
    /\ skipped_files = 2

\* C4: in one run the staging transaction runs at most once, and every
\* who_tested_what() call returned the one memoized triple.
C4_Memoized ==
    /\ stagings <= 1
    /\ wtw_returns # <<>> => (memo.has /\ stagings = 1)
    /\ \A i \in DOMAIN wtw_returns : wtw_returns[i] = memo

\* Both hooks have called who_tested_what(): a file was skipped, then the items
\* were filtered.
C4_Witness ==
    /\ Len(wtw_returns) >= 2
    /\ skip_decisions >= 1
    /\ ret.hook = "collection_modifyitems"

\* C5: when wtw and wtwdb are not both supplied, no path is skipped, the item list
\* is untouched, nothing is deselected, the counter stays 0, the baseline is
\* neither opened nor staged into, and no status line is emitted.
C5_InactivePassThrough ==
    /\ []((config.wtw = None \/ config.wtwdb = None) =>
            /\ ret.hook = "ignore_collect" => ret.value # PyTrue
            /\ ret.hook = "report_collectionfinish" => ret.value = None
            /\ skip_decisions = 0
            /\ skipped_files = 0
            /\ items = collection
            /\ deselected = <<>>
            /\ report_status = None
            /\ ~connected
            /\ stagings = 0
            /\ wtw_returns = <<>>)
    /\ [][(config'.wtw = None \/ config'.wtwdb = None) => store' = store]_vars

\* Only --wtw was supplied, items were collected, and the third hook call of the
\* run is the report at verbose >= 0.
C5_Witness ==
    /\ config.wtw # None
    /\ config.wtwdb = None
    /\ config.verbose >= 0
    /\ collection # <<>>
    /\ ncalls = 3
    /\ ret.hook = "report_collectionfinish"

\* C6: after an active pytest_collection_modifyitems the kept and the deselected
\* items are disjoint, every original item is in exactly one of the two, the two
\* lengths add up to the original length, and the status line carries them.
C6_SelectionPartition ==
    (active /\ ret.hook = "collection_modifyitems") =>
        LET kept == items
            gone == deselected[Len(deselected)]
        IN /\ SetOf(kept) \cap SetOf(gone) = {}
           /\ \A i \in DOMAIN ret.before :
                 (ret.before[i] \in SetOf(kept)) # (ret.before[i] \in SetOf(gone))
           /\ Len(kept) + Len(gone) = Len(ret.before)
           /\ report_status[1] = str(Len(kept))
           /\ report_status[4] = str(Len(gone))

\* A list with a repeated item, of which some items are kept and some deselected.
C6_Witness ==
    /\ active
    /\ ret.hook = "collection_modifyitems"
    /\ \E i \in DOMAIN ret.before, j \in DOMAIN ret.before : i # j /\ ret.before[i] = ret.before[j]
    /\ items # <<>>
    /\ deselected[Len(deselected)] # <<>>

\* C7: any_intersection(set_to_bitmask(A), set_to_bitmask(B)) is 1 when A and B
\* share a number and 0 when they do not.
C7_MaskRoundTrip ==
    mask.pc = "done" =>
        /\ mask.result \in {0, 1}
        /\ (mask.result = 1) <=> (mask.A \cap mask.B # {})

\* Two sets that share a number, encoded to masks of different byte lengths.
C7_Witness ==
    /\ mask.pc = "done"
    /\ mask.result = 1
    /\ Len(mask.bits1) # Len(mask.bits2)
    /\ Cardinality(mask.A) # Cardinality(mask.B)

\* C8: the staged linemask of a file marks line position i >= 0 exactly when i lies
\* in [S-1, S+L] for one of the file's hunks (S, L).
C8_MaskIsPaddedSpans ==
    hunk.pc = "staged" =>
        \A i \in 0..(MaxStart + MaxLength + 16) :
            Marked(hunk.linemask, i) <=>
                \E k \in DOMAIN hunk.hunks :
                    /\ hunk.hunks[k].source_start - 1 <= i
                    /\ i <= hunk.hunks[k].source_start + hunk.hunks[k].source_length

\* The directories above a path: its prefixes that end with '/'.
AncestorsOf(p) == { SubSeq(p, 1, k) : k \in { j \in DOMAIN p : p[j] = "/" } }

\* The directories above every path of a set.
CommonAncestors(S) == { d \in UNION { AncestorsOf(p) : p \in S } : \A p \in S : d \in AncestorsOf(p) }

\* C9: the common prefix ends with a path separator and is the nearest directory
\* above every path of the baseline.
C9_PrefixIsNearestAncestor ==
    prefix.pc = "done" =>
        /\ endswith(prefix.common_prefix, SLASH)
        /\ prefix.common_prefix \in CommonAncestors(prefix.all_files)
        /\ \A d \in CommonAncestors(prefix.all_files) : Len(d) <= Len(prefix.common_prefix)

\* What diff_lines holds once this run has staged: one row per path of a diff
\* file with a hunk, no other row, as if staged into an absent table.
StagedExactly ==
    /\ store.diff_lines.exists
    /\ \A r \in BagToSet(store.diff_lines.rows) :
          /\ CopiesIn(r, store.diff_lines.rows) = 1
          /\ \E p \in HunkedPaths : r.path = abspath(config.cwd, p)
    /\ \A p \in HunkedPaths :
          Cardinality({ r \in BagToSet(store.diff_lines.rows) : r.path = abspath(config.cwd, p) }) = 1
    /\ store.diff_lines =
          stage_diff_lines([store EXCEPT !.diff_lines = NoTable],
                           source_line_masks(diff.files, config.cwd)).diff_lines

\* C10: whatever diff_lines held before, after staging it holds exactly one row
\* per diff file with a hunk, and no step changes file, line_map or context.
C10_StagingIdempotent ==
    /\ [](stagings >= 1 => StagedExactly)
    /\ [][/\ store'.file = store.file
          /\ store'.line_map = store.line_map
          /\ store'.context = store.context]_vars

\* A second run has staged a diff that has a file without hunks.
C10_Witness ==
    /\ runs = 2
    /\ stagings = 1
    /\ \E i \in DOMAIN diff.files : diff.files[i].hunks = <<>>
    /\ HunkedPaths # {}
====
